---- MODULE Spec2Model ----
(***************************************************************************)
(* fade: brightness sliders for the connected monitors.                    *)
(*                                                                         *)
(* The repository holds three versions of the App component:               *)
(*   "socket"  src/unnamed/part_000      WebSocket push, parsed payload    *)
(*                                       stored as received                *)
(*   "stub"    src/src/App.tsx:1-99      WebSocket push, payload parsed    *)
(*                                       and then a hard-coded list stored *)
(*   "listen"  src/src/App.tsx:101-160   Tauri event subscription made in  *)
(*                                       the render body                   *)
(* The model runs one session (mount .. unmount) of one of them; `variant` *)
(* is fixed by Init.  The React state `monitors` is the device store.      *)
(***************************************************************************)
EXTENDS Integers, Sequences, FiniteSets, TLC

\* ---------------------------------------------------------------- bounds
MaxMessages == 2       \* inbound messages handled in one run
MaxCommands == 2       \* set_brightness requests issued in one run
SliderSpan == 2        \* slider props range over -SliderSpan .. SliderSpan

\* ------------------------------------------------------- program values
\* A reset that targets the geometric midpoint of the range -80 .. 100.
ResetAtMidpoint == (-80 + 100) \div 2

ResetValue == 0        \* onDoubleClick={() => handleSlider(0, m.device_name)}
MinValue == -100       \* minValue={-100}
MaxValue == 100        \* maxValue={100}
CenterValue == 0       \* centerValue={0}
ChangeLevel == 10      \* level sent by handleChange of the listen version

\* ------------------------------------------------------------ JSON values
\* A JSON value in the brightness field: a number, or something else
\* (a string such as "high"), which JSON.parse accepts just as well.
Undefined == [t |-> "undefined", v |-> 0]

Num(v) == [t |-> "number", v |-> v]
NotNumeric == [t |-> "string", v |-> 0]

DeviceNames == {"DISPLAY1", "DISPLAY2"}
DisplayNames == {"Display"}
Levels == {20, 50}                 \* brightness levels the backend reports
DragValues == {50}                 \* slider positions a drag reports

\* type MonitorInfo = { device_name, name, brightness }
\* The records the backend sends: DISPLAY1 at every level or with a brightness
\* that is no number, DISPLAY2 at one level.
MonitorInfo ==
    [device_name : {"DISPLAY1"}, name : DisplayNames,
     brightness : {Num(v) : v \in Levels} \cup {NotNumeric}]
    \cup [device_name : {"DISPLAY2"}, name : DisplayNames, brightness : {Num(20)}]

\* The decoded payloads of the inbound messages: arrays of at most two records.
Payloads ==
    {<<>>} \cup {<<a>> : a \in MonitorInfo} \cup {<<a, b>> : a \in MonitorInfo, b \in MonitorInfo}

\* event.data of a WebSocket message: text JSON.parse rejects, the text of a
\* JSON value that is no array (an object such as {}), or the text of a payload.
Frames ==
    {[kind |-> "text", data |-> <<>>], [kind |-> "object", data |-> <<>>]}
    \cup {[kind |-> "json", data |-> p] : p \in Payloads}

VARIABLES
    variant,        \* which version of App runs
    mounted,        \* "init" | "mounted" | "unmounted" | "crashed"
    monitors,       \* useState<MonitorInfo[]>([])
    isArray,        \* whether the value in monitors is an array (FALSE: monitors.map throws)
    errors,         \* useState<Array<String>>([])
    name,           \* useState<any>("") of the listen version
    socket,         \* "none" | "open" | "closed": the WebSocket of the effect
    pendingListen,  \* listen() calls the backend has not registered yet
    liveListen,     \* listeners registered and not yet unlistened
    established,    \* subscriptions this session has made (new WebSocket, listen)
    released,       \* subscriptions this session has released (close, unlisten)
    watchCalls,     \* invoke("watch_monitors") calls
    requests,       \* set_brightness invokes awaiting their result
    cmdCounter,     \* set_brightness invokes dispatched so far
    delivered,      \* inbound messages handled so far
    needsRender,    \* a state update is scheduled and not yet rendered
    rendered,       \* the device_name of each slider on screen, in order
    pend,           \* per device: the last local command no later snapshot has superseded
    last,           \* the operation that produced this state
    minValue,       \* Slider prop minValue
    maxValue,       \* Slider prop maxValue
    centerValue,    \* Slider prop centerValue, Undefined when the parent passes none
    brightnessValue,\* Slider prop brightnessValue: the store's brightness at the parent's last render
    sliderValue,    \* Slider state: const [value, setValue] = useState(brightnessValue)
    effectDue,      \* the effect on [brightnessValue] is scheduled and has not run yet
    emitted,        \* the argument of the onChange call this step made, Undefined if none
    sliderLast      \* the Slider operation that produced this state

appVars ==
    <<variant, mounted, monitors, isArray, errors, name, socket, pendingListen, liveListen,
      established, released, watchCalls, requests, cmdCounter, delivered,
      needsRender, rendered, pend, last>>

sliderVars ==
    <<minValue, maxValue, centerValue, brightnessValue, sliderValue, effectDue, emitted,
      sliderLast>>

vars == <<appVars, sliderVars>>

\* The sequence marker of a snapshot: the number of commands that had been
\* dispatched when the backend captured it, plus one if it was captured
\* after the last of them took effect.  No version of App reads it.
Markers == 0 .. (cmdCounter + 1)

Variants == {"socket", "stub", "listen"}

Synced == [ctr |-> 0, value |-> 0]

\* -------------------------------------------------------------- helpers
Ids(list) == {list[i].device_name : i \in 1 .. Len(list)}
IndexesOf(list, d) == {i \in 1 .. Len(list) : list[i].device_name = d}

\* JSON.parse(event.data) throws on text that is not JSON.
ParseThrows(frame) == frame.kind = "text"
JSONParse(frame) == frame.data

\* let mon = [...] of the stub version
HardCoded ==
    << [device_name |-> "DISPLAY2", name |-> "Internal Display", brightness |-> Num(0)],
       [device_name |-> "DISPLAY1", name |-> " Display", brightness |-> Num(20)] >>

\* A map that forgets the comparison: every record gets the new brightness.
MapBrightnessAll(prev, deviceName, value) ==
    [i \in 1 .. Len(prev) |-> [prev[i] EXCEPT !.brightness = Num(value)]]

\* A map that writes nothing.
MapBrightnessNone(prev, deviceName, value) == prev

\* prev.map((m) => m.device_name === deviceName ? { ...m, brightness: value } : m)
MapBrightness(prev, deviceName, value) ==
    [i \in 1 .. Len(prev) |->
        IF prev[i].device_name = deviceName
        THEN [prev[i] EXCEPT !.brightness = Num(value)]
        ELSE prev[i]]

\* monitors.map(m => <Slider key={m.device_name} ... />): the device each slider acts on
DeviceNamesOf(list) == [i \in 1 .. Len(list) |-> list[i].device_name]

\* updated.map(n => n.name)
NamesOf(list) == [i \in 1 .. Len(list) |-> list[i].name]

\* A state setter of a component that is no longer mounted does nothing.
SetMonitors(next) ==
    IF mounted = "mounted"
    THEN monitors' = next /\ isArray' = TRUE /\ needsRender' = TRUE
    ELSE UNCHANGED <<monitors, isArray, needsRender>>

\* setMonitors(x) with a parsed value x that is no array: the state holds x,
\* which has no records.
SetMonitorsNotArray ==
    IF mounted = "mounted"
    THEN monitors' = <<>> /\ isArray' = FALSE /\ needsRender' = TRUE
    ELSE UNCHANGED <<monitors, isArray, needsRender>>

\* setErrors(prev => [...prev, message])
PushError(message) ==
    IF mounted = "mounted"
    THEN errors' = Append(errors, message) /\ needsRender' = TRUE
    ELSE UNCHANGED <<errors, needsRender>>

\* The reconciliation state of a device after a snapshot with marker seq has
\* been handled: a command stays pending while no snapshot with a larger
\* marker has arrived and the device is still listed.
PendAfterSnapshot(seq, list) ==
    [d \in DeviceNames |->
        IF pend[d].ctr > 0 /\ seq <= pend[d].ctr /\ d \in Ids(list)
        THEN pend[d]
        ELSE Synced]

\* ----------------------------------------------------------------- Init
AppInit ==
    /\ variant \in Variants
    /\ mounted = "init"
    /\ monitors = <<>>
    /\ isArray = TRUE
    /\ errors = <<>>
    /\ name = <<>>
    /\ socket = "none"
    /\ pendingListen = 0
    /\ liveListen = 0
    /\ established = 0
    /\ released = 0
    /\ watchCalls = 0
    /\ requests = {}
    /\ cmdCounter = 0
    /\ delivered = 0
    /\ needsRender = FALSE
    /\ rendered = <<>>
    /\ pend = [d \in DeviceNames |-> Synced]
    /\ last = "init"

\* The Slider after its first render with the given props.
SliderMounted(lo, hi, c, b) ==
    /\ minValue = lo
    /\ maxValue = hi
    /\ centerValue = c
    /\ brightnessValue = b
    /\ sliderValue = b
    /\ effectDue = TRUE
    /\ emitted = Undefined
    /\ sliderLast = "init"

\* App before its first render; the Slider as App configures it.
Init ==
    /\ AppInit
    /\ SliderMounted(MinValue, MaxValue, Num(CenterValue), ResetValue)

\* --------------------------------------------------------------- render
\* The body of App in the listen version, run on every render:
\*   invoke("watch_monitors"); const unlisten = listen(...); unlisten.then(f => f());
\*   handleChange();
ListenBody ==
    /\ watchCalls' = watchCalls + 1
    /\ pendingListen' = pendingListen + 1
    /\ established' = established + 1
    /\ cmdCounter' = cmdCounter + 1
    /\ requests' = requests \cup
          {[n |-> cmdCounter + 1, by |-> "handleChange",
            value |-> ChangeLevel, deviceName |-> "DISPLAY1"]}

\* useEffect(() => { const socket = new WebSocket(...); ...; return () => socket.close() }, [])
SocketEffect ==
    /\ socket' = "open"
    /\ established' = established + 1

\* The component mounts: first render, then the effects with [] dependencies.
Mount ==
    /\ mounted = "init"
    /\ mounted' = "mounted"
    /\ rendered' = DeviceNamesOf(monitors)
    /\ needsRender' = FALSE
    /\ last' = "mount"
    /\ IF variant = "listen"
       THEN ListenBody /\ UNCHANGED socket
       ELSE SocketEffect /\ UNCHANGED <<pendingListen, watchCalls, requests, cmdCounter>>
    /\ UNCHANGED <<variant, monitors, isArray, errors, name, liveListen, released, delivered, pend>>

\* A scheduled state update is rendered: the sliders are rebuilt from monitors.
\* The effect of the socket versions has no dependencies and does not run again;
\* the body of the listen version runs again in full.
Render ==
    /\ mounted = "mounted"
    /\ needsRender
    /\ isArray
    /\ variant = "listen" => cmdCounter < MaxCommands
    /\ rendered' = DeviceNamesOf(monitors)
    /\ needsRender' = FALSE
    /\ last' = "render"
    /\ IF variant = "listen"
       THEN ListenBody
       ELSE UNCHANGED <<pendingListen, established, watchCalls, requests, cmdCounter>>
    /\ UNCHANGED <<variant, mounted, monitors, isArray, errors, name, socket, liveListen,
                   released, delivered, pend>>

\* The render of a state that is no array: {monitors.map(m => ...)} throws a
\* TypeError; with no error boundary the component tree is unmounted, which
\* runs the cleanup of the effect.
RenderThrows ==
    /\ mounted = "mounted"
    /\ needsRender
    /\ ~isArray
    /\ mounted' = "crashed"
    /\ socket' = "closed"
    /\ released' = released + 1
    /\ rendered' = <<>>
    /\ needsRender' = FALSE
    /\ last' = "crash"
    /\ UNCHANGED <<variant, monitors, isArray, errors, name, pendingListen, liveListen,
                   established, watchCalls, requests, cmdCounter, delivered, pend>>

\* The cleanup of the effect: socket.close().  The listen version has none
\* (its cleanup is commented out).
Unmount ==
    /\ mounted = "mounted"
    /\ mounted' = "unmounted"
    /\ last' = "unmount"
    /\ IF variant = "listen"
       THEN UNCHANGED <<socket, released>>
       ELSE socket' = "closed" /\ released' = released + 1
    /\ UNCHANGED <<variant, monitors, isArray, errors, name, pendingListen, liveListen,
                   established, watchCalls, requests, cmdCounter, delivered,
                   needsRender, rendered, pend>>

\* -------------------------------------------------------------- inbound
\* What socket.onmessage stores for a frame JSON.parse accepted.
Stored(frame) ==
    IF variant = "stub" THEN HardCoded ELSE JSONParse(frame)

\* Whether that value is an array: nothing in onmessage looks at its shape.
StoresArray(frame) == variant = "stub" \/ frame.kind = "json"

\* socket.onmessage = (event) => { try { ... setMonitors(..) } catch (err) { setErrors(..) } }
\* A closed socket dispatches no message event.
OnMessage(frame, seq) ==
    /\ variant \in {"socket", "stub"}
    /\ socket = "open"
    /\ delivered < MaxMessages
    /\ delivered' = delivered + 1
    /\ last' = "message"
    /\ IF ParseThrows(frame)
       THEN /\ PushError("parse")
            /\ UNCHANGED <<monitors, isArray, pend>>
       ELSE /\ IF StoresArray(frame)
               THEN SetMonitors(Stored(frame))
               ELSE SetMonitorsNotArray
            /\ pend' = PendAfterSnapshot(seq, Stored(frame))
            /\ UNCHANGED errors
    /\ UNCHANGED <<variant, mounted, name, socket, pendingListen, liveListen,
                   established, released, watchCalls, requests, cmdCounter, rendered>>

\* socket.onerror = (err) => setErrors(prev => [...prev, ...]); the transport
\* closes the connection after an error.
OnError ==
    /\ variant \in {"socket", "stub"}
    /\ socket = "open"
    /\ socket' = "closed"
    /\ PushError("socket")
    /\ last' = "error"
    /\ UNCHANGED <<variant, mounted, monitors, isArray, name, pendingListen, liveListen,
                   established, released, watchCalls, requests, cmdCounter,
                   delivered, rendered, pend>>

\* The backend registers the listener of a listen() call; from here on an
\* event reaches the handler.
ListenRegistered ==
    /\ pendingListen > 0
    /\ pendingListen' = pendingListen - 1
    /\ liveListen' = liveListen + 1
    /\ last' = "registered"
    /\ UNCHANGED <<variant, mounted, monitors, isArray, errors, name, socket, established,
                   released, watchCalls, requests, cmdCounter, delivered,
                   needsRender, rendered, pend>>

\* The promise of listen() resolves and unlisten.then(f => f()) removes the listener.
Unlisten ==
    /\ liveListen > 0
    /\ liveListen' = liveListen - 1
    /\ released' = released + 1
    /\ last' = "unlisten"
    /\ UNCHANGED <<variant, mounted, monitors, isArray, errors, name, socket, pendingListen,
                   established, watchCalls, requests, cmdCounter, delivered,
                   needsRender, rendered, pend>>

\* listen("monitors-changed", (event) => { setMonitors(updated); setName(...) })
OnEvent(payload, seq) ==
    /\ variant = "listen"
    /\ liveListen > 0
    /\ delivered < MaxMessages
    /\ delivered' = delivered + 1
    /\ last' = "message"
    /\ SetMonitors(payload)
    /\ name' = IF mounted = "mounted" THEN NamesOf(payload) ELSE name
    /\ pend' = PendAfterSnapshot(seq, payload)
    /\ UNCHANGED <<variant, mounted, errors, socket, pendingListen, liveListen,
                   established, released, watchCalls, requests, cmdCounter, rendered>>

\* ------------------------------------------------------------- commands
\* const handleSlider = async (value, deviceName) => { try { await invoke("set_brightness", ..)
\* up to the await: the request is sent, nothing else happens.
HandleSlider(value, deviceName) ==
    /\ cmdCounter' = cmdCounter + 1
    /\ requests' = requests \cup
          {[n |-> cmdCounter + 1, by |-> "handleSlider",
            value |-> value, deviceName |-> deviceName]}
    /\ pend' = [pend EXCEPT ![deviceName] = [ctr |-> cmdCounter + 1, value |-> value]]
    /\ UNCHANGED <<monitors, isArray, needsRender>>

\* <input type="range" onChange={(e) => onChange(Number(e.target.value))}> of the
\* slider rendered for rendered[i]: onChange = (val) => handleSlider(val, m.device_name)
Drag(i, value) ==
    /\ variant \in {"socket", "stub"}
    /\ mounted = "mounted"
    /\ i \in 1 .. Len(rendered)
    /\ cmdCounter < MaxCommands
    /\ HandleSlider(value, rendered[i])
    /\ last' = "drag"
    /\ UNCHANGED <<variant, mounted, errors, name, socket, pendingListen, liveListen,
                   established, released, watchCalls, delivered, rendered>>

\* onDoubleClick={() => handleSlider(0, m.device_name)}
DoubleClick(i) ==
    /\ variant \in {"socket", "stub"}
    /\ mounted = "mounted"
    /\ i \in 1 .. Len(rendered)
    /\ cmdCounter < MaxCommands
    /\ HandleSlider(ResetValue, rendered[i])
    /\ last' = "doubleclick"
    /\ UNCHANGED <<variant, mounted, errors, name, socket, pendingListen, liveListen,
                   established, released, watchCalls, delivered, rendered>>

\* The invoke resolves: handleSlider continues after the await with
\* setMonitors((prev) => prev.map(...)); handleChange has nothing after its await.
\* On a state that is no array prev.map throws and nothing is stored.
InvokeResolved(r) ==
    /\ r \in requests
    /\ requests' = requests \ {r}
    /\ last' = "resolved"
    /\ IF r.by = "handleSlider" /\ isArray
       THEN SetMonitors(MapBrightness(monitors, r.deviceName, r.value))
       ELSE UNCHANGED <<monitors, isArray, needsRender>>
    /\ UNCHANGED <<variant, mounted, errors, name, socket, pendingListen, liveListen,
                   established, released, watchCalls, cmdCounter, delivered,
                   rendered, pend>>

\* The invoke rejects: catch (e) { console.error(...) } in handleSlider, an
\* unhandled rejection in handleChange; no state is touched.
InvokeRejected(r) ==
    /\ r \in requests
    /\ requests' = requests \ {r}
    /\ last' = "rejected"
    /\ UNCHANGED <<variant, mounted, monitors, isArray, errors, name, socket, pendingListen,
                   liveListen, established, released, watchCalls, cmdCounter,
                   delivered, needsRender, rendered, pend>>

Next ==
    \/ Mount /\ UNCHANGED sliderVars
    \/ Render /\ UNCHANGED sliderVars
    \/ RenderThrows /\ UNCHANGED sliderVars
    \/ Unmount /\ UNCHANGED sliderVars
    \/ \E frame \in Frames, seq \in Markers : OnMessage(frame, seq) /\ UNCHANGED sliderVars
    \/ OnError /\ UNCHANGED sliderVars
    \/ ListenRegistered /\ UNCHANGED sliderVars
    \/ Unlisten /\ UNCHANGED sliderVars
    \/ \E payload \in Payloads, seq \in Markers : OnEvent(payload, seq) /\ UNCHANGED sliderVars
    \/ \E i \in 1 .. 2, value \in DragValues : Drag(i, value) /\ UNCHANGED sliderVars
    \/ \E i \in 1 .. 2 : DoubleClick(i) /\ UNCHANGED sliderVars
    \/ \E r \in requests : InvokeResolved(r) /\ UNCHANGED sliderVars
    \/ \E r \in requests : InvokeRejected(r) /\ UNCHANGED sliderVars

Spec == Init /\ [][Next]_vars

(***************************************************************************)
(* The Slider component (src/src/components/Slider.tsx).  Percents are     *)
(* kept as exact fractions n/d with d > 0; the results a division by zero  *)
(* has in JavaScript are the values NaN, Infinity and -Infinity.           *)
(***************************************************************************)
RECURSIVE GCD(_, _)
GCD(a, b) == IF b = 0 THEN a ELSE GCD(b, a % b)

Abs(n) == IF n < 0 THEN -n ELSE n

\* The number n/d, d > 0, in lowest terms.
Frac(n, d) ==
    LET g == GCD(Abs(n), d)
    IN  [t |-> "fin", n |-> n \div g, d |-> d \div g]
NaN == [t |-> "nan", n |-> 0, d |-> 0]
Infinity(sign) == [t |-> "inf", n |-> sign, d |-> 0]

\* a >= b on JavaScript numbers: FALSE as soon as one side is NaN.
GreaterOrEqual(a, b) ==
    CASE a.t = "nan" \/ b.t = "nan" -> FALSE
      [] a.t = "inf" /\ b.t = "inf" -> a.n >= b.n
      [] a.t = "inf" /\ b.t = "fin" -> a.n > 0
      [] a.t = "fin" /\ b.t = "inf" -> b.n < 0
      [] OTHER -> a.n * b.d >= b.n * a.d

\* a - b on JavaScript numbers.
Minus(a, b) ==
    CASE a.t = "nan" \/ b.t = "nan" -> NaN
      [] a.t = "inf" /\ b.t = "inf" -> IF a.n = b.n THEN NaN ELSE a
      [] a.t = "inf" /\ b.t = "fin" -> a
      [] a.t = "fin" /\ b.t = "inf" -> Infinity(-b.n)
      [] OTHER -> Frac(a.n * b.d - b.n * a.d, a.d * b.d)

\* ((x - minValue) / (maxValue - minValue)) * 100 for x = n/d
Percent(x, lo, hi) ==
    LET span == hi - lo
        num == x.n - lo * x.d
    IN  IF span = 0
        THEN IF num = 0 THEN NaN ELSE IF num > 0 THEN Infinity(1) ELSE Infinity(-1)
        ELSE IF span > 0
             THEN Frac(100 * num, x.d * span)
             ELSE Frac(-100 * num, -(x.d * span))

\* centerValue !== undefined ? centerValue : (minValue + maxValue) / 2
center ==
    IF centerValue.t # "undefined"
    THEN Frac(centerValue.v, 1)
    ELSE Frac(minValue + maxValue, 2)

valuePercent == Percent(Frac(sliderValue, 1), minValue, maxValue)

centerPercent == Percent(center, minValue, maxValue)

\* A fill that always starts at the value and never looks at the order.
fillStyleFromValue ==
    [left |-> valuePercent, width |-> Minus(centerPercent, valuePercent)]

fillStyle ==
    IF GreaterOrEqual(valuePercent, centerPercent)
    THEN [left |-> centerPercent, width |-> Minus(valuePercent, centerPercent)]
    ELSE [left |-> valuePercent, width |-> Minus(centerPercent, valuePercent)]

\* What a render of the Slider yields: the styles computed from the props and
\* the state; no branch of the component throws.
SliderOutcome == [kind |-> "geometry", fill |-> fillStyle, thumb |-> valuePercent]

SliderRange == (-SliderSpan) .. SliderSpan

\* The brightness values the parent may hold for the device.
StoreLevels == SliderRange \cup Levels \cup {ResetValue}

\* The positions the range input can report: min .. max, and min alone when
\* the range is empty.
InputValues == IF maxValue >= minValue THEN minValue .. maxValue ELSE {minValue}

\* useEffect(() => { setValue(brightnessValue) }, [brightnessValue]) and the
\* re-render it causes.
SliderEffect ==
    /\ effectDue
    /\ sliderValue' = brightnessValue
    /\ effectDue' = FALSE
    /\ emitted' = Undefined
    /\ sliderLast' = "effect"
    /\ UNCHANGED <<minValue, maxValue, centerValue, brightnessValue>>
    /\ UNCHANGED appVars

\* The parent renders the Slider again with brightnessValue={m.brightness};
\* the effect is scheduled when the prop differs from the last render's.
ParentRender(b) ==
    /\ ~effectDue
    /\ brightnessValue' = b
    /\ effectDue' = (b # brightnessValue)
    /\ emitted' = Undefined
    /\ sliderLast' = "render"
    /\ UNCHANGED <<minValue, maxValue, centerValue, sliderValue>>
    /\ UNCHANGED appVars

\* An input that keeps the position the user dragged to.
SliderOnChangeKeeps(v) ==
    /\ v # sliderValue
    /\ emitted' = Num(v)
    /\ sliderValue' = v
    /\ sliderLast' = "change"
    /\ UNCHANGED <<minValue, maxValue, centerValue, brightnessValue, effectDue>>
    /\ UNCHANGED appVars

\* <input type="range" value={value} onChange={(e) => onChange(Number(e.target.value))} />
SliderOnChange(v) ==
    /\ v # sliderValue
    /\ emitted' = Num(v)
    /\ sliderLast' = "change"
    /\ UNCHANGED <<minValue, maxValue, centerValue, brightnessValue, sliderValue, effectDue>>
    /\ UNCHANGED appVars

\* <div className="group w-full" onDoubleClick={onDoubleClick}>
SliderDoubleClick ==
    /\ emitted' = Undefined
    /\ sliderLast' = "doubleclick"
    /\ UNCHANGED <<minValue, maxValue, centerValue, brightnessValue, sliderValue, effectDue>>
    /\ UNCHANGED appVars

\* A Slider mounted with props from the bounded range, or as App configures
\* it; App itself stays before its first render.
InitSlider ==
    /\ AppInit
    /\ variant = "socket"
    /\ \/ \E lo \in SliderRange, hi \in SliderRange, b \in SliderRange,
             c \in {Num(x) : x \in SliderRange} \cup {Undefined} :
             SliderMounted(lo, hi, c, b)
       \/ \E b \in StoreLevels : SliderMounted(MinValue, MaxValue, Num(CenterValue), b)

NextSlider ==
    \/ SliderEffect
    \/ \E b \in StoreLevels : ParentRender(b)
    \/ \E v \in InputValues : SliderOnChange(v)
    \/ SliderDoubleClick

SpecSlider == InitSlider /\ [][NextSlider]_vars

\* ------------------------------------------------------ claim vocabulary
\* The brightness values the store holds for device d (one value, unless the
\* store lists d more than once).
BrightnessOf(list, d) == {list[i].brightness : i \in IndexesOf(list, d)}

\* A payload is a well-formed snapshot when every brightness is a number.
WellFormed(payload) == \A i \in 1 .. Len(payload) : payload[i].brightness.t = "number"

\* This step handled the inbound message carrying payload p with marker seq.
Handled(p, seq) == OnMessage([kind |-> "json", data |-> p], seq) \/ OnEvent(p, seq)

\* The set_brightness requests this step completed.
Completed == requests \ requests'

\* Device d has a local command that no snapshot has superseded.
PendingOptimistic(d) == pend[d].ctr > 0

LiveSubscriptions == (IF socket = "open" THEN 1 ELSE 0) + liveListen

\* ---------------------------------------------------------------- claims
\* C1: a well-formed snapshot whose marker does not exceed the dispatch
\* counter of a device's pending command leaves the stored brightness of that
\* device at the commanded value.  Stated for the case in which the store
\* already holds the commanded value when the snapshot arrives.
C1_StaleSnapshotKeepsCommand ==
    [][\A d \in DeviceNames, p \in Payloads, seq \in Markers :
          ( /\ last' = "message"
            /\ Handled(p, seq)
            /\ WellFormed(p)
            /\ mounted = "mounted"
            /\ PendingOptimistic(d)
            /\ seq <= pend[d].ctr
            /\ d \in Ids(p)
            /\ BrightnessOf(monitors, d) = {Num(pend[d].value)} )
          => BrightnessOf(monitors', d) = {Num(pend[d].value)}]_vars

\* C2: while a set-request of handleSlider is in flight and is the latest
\* command for its device, the store already holds the requested value.
C2_StoreWrittenBeforeRequest ==
    \A r \in requests :
        ( /\ r.by = "handleSlider"
          /\ mounted = "mounted"
          /\ pend[r.deviceName].ctr = r.n
          /\ r.deviceName \in Ids(monitors) )
        => BrightnessOf(monitors, r.deviceName) = {Num(r.value)}

\* C3: when the set-request of the latest command for a device fails, the
\* store holds the commanded value after the failure has been handled.
C3_FailureKeepsCommand ==
    [][\A r \in Completed :
          ( /\ last' = "rejected"
            /\ r.by = "handleSlider"
            /\ mounted = "mounted"
            /\ pend[r.deviceName].ctr = r.n
            /\ r.deviceName \in Ids(monitors) )
          => BrightnessOf(monitors', r.deviceName) = {Num(r.value)}]_vars

\* C4: for a device with no pending local command, handling a well-formed
\* snapshot stores the snapshot's brightness for it; with no command pending
\* or in flight at all, the store is the snapshot that was handled.
C4_SnapshotOverwritesSynced ==
    [][\A p \in Payloads, seq \in Markers :
          ( /\ last' = "message"
            /\ Handled(p, seq)
            /\ WellFormed(p)
            /\ mounted = "mounted" )
          => /\ \A d \in Ids(p) :
                  ~PendingOptimistic(d) => BrightnessOf(monitors', d) = BrightnessOf(p, d)
             /\ (\A d \in DeviceNames : ~PendingOptimistic(d)) => monitors' = p]_vars

\* C5: the store is empty before the first snapshot, and after a well-formed
\* snapshot has been handled the ids in the store are the ids of that snapshot.
C5_StoreIdsAreSnapshotIds ==
    [][/\ delivered' = 0 => monitors' = <<>>
       /\ \A p \in Payloads, seq \in Markers :
             ( /\ last' = "message"
               /\ Handled(p, seq)
               /\ WellFormed(p)
               /\ mounted = "mounted" )
             => Ids(monitors') = Ids(p)]_vars

\* C6: a session makes its subscription (and its watch call) once, never holds
\* two live subscriptions, releases nothing while it is active, and has
\* released its subscription exactly once when it has ended.
C6_SubscribedOnceReleasedAtEnd ==
    /\ established <= 1
    /\ watchCalls <= 1
    /\ LiveSubscriptions <= 1
    /\ mounted = "mounted" => (established = 1 /\ released = 0)
    /\ mounted = "unmounted" => released = 1

\* C7: a malformed inbound message (text that is no JSON, or a record whose
\* brightness is no number) leaves the store as it was and adds exactly one
\* reported error.
C7_MalformedMessageRejected ==
    [][/\ \A p \in Payloads, seq \in Markers :
             ( /\ last' = "message"
               /\ Handled(p, seq)
               /\ ~WellFormed(p)
               /\ mounted = "mounted" )
             => (monitors' = monitors /\ Len(errors') = Len(errors) + 1)
       /\ \A seq \in Markers :
             ( /\ last' = "message"
               /\ OnMessage([kind |-> "text", data |-> <<>>], seq)
               /\ mounted = "mounted" )
             => (monitors' = monitors /\ Len(errors') = Len(errors) + 1)]_vars

\* C8: a gesture on a slider whose device is no longer in the store sends no
\* set-request, reports one error and leaves the store unchanged.
C8_UnknownDeviceCommandDropped ==
    [][\A i \in 1 .. Len(rendered), value \in DragValues :
          ( /\ Drag(i, value) \/ DoubleClick(i)
            /\ rendered[i] \notin Ids(monitors) )
          => /\ requests' = requests
             /\ Len(errors') = Len(errors) + 1
             /\ monitors' = monitors]_vars

\* C9: after the session has been torn down no inbound message is handled
\* and the store does not change.
C9_NothingAfterTeardown ==
    [][mounted = "unmounted" => (monitors' = monitors /\ last' # "message")]_vars

\* C10: the store never holds two records with the same device id.
C10_UniqueIds ==
    \A d \in DeviceNames : Cardinality(IndexesOf(monitors, d)) <= 1

\* C11: every failed set-request of handleSlider adds one entry to the
\* session's reported errors.
C11_CommandFailureReported ==
    [][\A r \in Completed :
          ( /\ last' = "rejected"
            /\ r.by = "handleSlider"
            /\ mounted = "mounted" )
          => Len(errors') = Len(errors) + 1]_vars

\* C16: a set-request is dispatched only by a drag or a double click, one
\* request per gesture.
C16_RequestsOnlyFromGestures ==
    [][cmdCounter' # cmdCounter
          => /\ last' \in {"drag", "doubleclick"}
             /\ cmdCounter' = cmdCounter + 1
             /\ Cardinality(requests' \ requests) = 1]_vars

\* C12: no inbound message, whatever its content, ends the session: the
\* component is never unmounted by a failure, so the next message is handled.
C12_MessageFailureNotFatal ==
    mounted # "crashed"

C17_WriteAtCompletion ==
    [][\A r \in Completed :
          ( /\ last' = "resolved"
            /\ r.by = "handleSlider"
            /\ mounted = "mounted"
            /\ isArray
            /\ r.deviceName \in Ids(monitors) )
          => BrightnessOf(monitors', r.deviceName) = {Num(r.value)}]_vars

\* Two commands for one device were in flight; both have completed, a
\* resolution came last, and the store holds the value of the first command,
\* not that of the command issued last.
C17_Witness ==
    /\ variant = "socket"
    /\ mounted = "mounted"
    /\ last = "resolved"
    /\ requests = {}
    /\ cmdCounter = 2
    /\ \E d \in DeviceNames :
          /\ pend[d] = [ctr |-> 2, value |-> 50]
          /\ BrightnessOf(monitors, d) = {Num(ResetValue)}

\* C18: a command changes nothing in the store but the brightness of the
\* records of its device: dispatch and failure leave the store as it is, and a
\* resolution keeps the length and order of the records, every device id and
\* display name, and the brightness of every other device.
C18_CommandFrame ==
    [][/\ last' \in {"drag", "doubleclick", "rejected"} => monitors' = monitors
       /\ \A r \in Completed :
             last' = "resolved"
             => /\ Len(monitors') = Len(monitors)
                /\ \A i \in 1 .. Len(monitors) :
                      /\ monitors'[i].device_name = monitors[i].device_name
                      /\ monitors'[i].name = monitors[i].name
                      /\ monitors[i].device_name # r.deviceName
                            => monitors'[i].brightness = monitors[i].brightness
                /\ r.deviceName \notin Ids(monitors) => monitors' = monitors]_vars

\* A command for one of two listed devices has resolved: its record holds the
\* reset value, the record of the other device a level the backend reported.
C18_Witness ==
    /\ variant = "socket"
    /\ mounted = "mounted"
    /\ last = "resolved"
    /\ Len(monitors) = 2
    /\ monitors[1].device_name # monitors[2].device_name
    /\ \E i, j \in 1 .. 2 :
          /\ monitors[i].brightness = Num(ResetValue)
          /\ monitors[j].brightness.t = "number"
          /\ monitors[j].brightness.v \in Levels

\* Vocabulary of the Slider claims: sums, equality and range of fractions.
Plus(a, b) == Frac(a.n * b.d + b.n * a.d, a.d * b.d)

SameNumber(a, b) == a.t = "fin" /\ b.t = "fin" /\ a.n * b.d = b.n * a.d

InPercentRange(a) == a.t = "fin" /\ a.n >= 0 /\ a.n <= 100 * a.d

C15_EmptyRangeRejected ==
    maxValue <= minValue => SliderOutcome.kind = "DomainError"

\* C19: a change of the range input passes the position to onChange and leaves
\* the displayed value as it is; the displayed value changes only in the
\* effect, to a brightnessValue that differs from it; and once the effect has
\* run the displayed value is the brightnessValue the parent supplied.
C19_ControlledView ==
    [][/\ sliderLast' = "change"
            => sliderValue' = sliderValue /\ emitted'.t = "number"
       /\ sliderValue' # sliderValue
            => /\ sliderLast' = "effect"
               /\ brightnessValue # sliderValue
               /\ sliderValue' = brightnessValue
       /\ ~effectDue' => sliderValue' = brightnessValue']_vars

\* The input has reported a position other than the displayed value, and the
\* Slider still displays the brightness the parent supplied, which an earlier
\* effect applied.
C19_Witness ==
    /\ sliderLast = "change"
    /\ emitted.t = "number"
    /\ emitted.v # sliderValue
    /\ ~effectDue
    /\ sliderValue = brightnessValue

====
